---- MODULE Spec2Model ----
(***************************************************************************)
(* Hybrid ensemble training and screening of muraharu-program/auto-        *)
(* screening: train_hybrid / train_local_models (models/train_hybrid.py),  *)
(* screen_hybrid (screening/screen_hybrid.py), screen_stocks               *)
(* (screening/screen.py), apply_sentiment_filter and fetch_news_rss        *)
(* (sentiment/news_sentiment.py).                                          *)
(*                                                                         *)
(* Instrument identifiers are strings, modelled as sequences of code       *)
(* points so that sorted() and str.replace(".", "_") are computed as the   *)
(* code computes them.  Probabilities and weights are decimal fixed-point  *)
(* numbers: a probability p is the integer 100*p, a weight w the integer   *)
(* 10*w.                                                                   *)
(***************************************************************************)
EXTENDS Integers, Sequences, FiniteSets, TLC

(***************************************************************************)
(* Bounds of the model.                                                    *)
(***************************************************************************)
MaxRows == 2        \* rows of one instrument in a training dataset

(***************************************************************************)
(* Instrument identifiers: "1.T", "1_T", "2.T".                            *)
(***************************************************************************)
TRAIN_SLEEP_SEC == 5    \* in tenths of a second
Dot == 46
Underscore == 95
Tickers == { <<49, Dot, 84>>, <<49, Underscore, 84>>, <<50, Dot, 84>> }

Range(s) == { s[k] : k \in 1..Len(s) }

\* Python's str ordering: lexicographic by code point, a proper prefix first.
RECURSIVE StrLess(_, _)
StrLess(a, b) ==
    IF Len(b) = 0 THEN FALSE
    ELSE IF Len(a) = 0 THEN TRUE
    ELSE IF Head(a) # Head(b) THEN Head(a) < Head(b)
    ELSE StrLess(Tail(a), Tail(b))

\* The instruments in descending order.
RECURSIVE Sorted_Descending(_)
Sorted_Descending(S) ==
    IF S = {} THEN << >>
    ELSE LET m == CHOOSE x \in S : \A y \in S \ {x} : StrLess(y, x)
         IN  <<m>> \o Sorted_Descending(S \ {m})

\* sorted(S) for a set of strings.
RECURSIVE Sorted(_)
Sorted(S) ==
    IF S = {} THEN << >>
    ELSE LET m == CHOOSE x \in S : \A y \in S \ {x} : StrLess(x, y)
         IN  <<m>> \o Sorted(S \ {m})

\* ticker.replace(".", "_")
safe_ticker(t) == [k \in 1..Len(t) |-> IF t[k] = Dot THEN Underscore ELSE t[k]]

\* os.path.join(local_dir, f"local_model_{safe_ticker}.pkl"); the directory and
\* the fixed prefix and suffix are the same for every instrument.
LocalPath(t) == safe_ticker(t)

Keys == { LocalPath(t) : t \in Tickers }

\* A path of the local model directory holds no file, a truncated file or a
\* bundle.
NoFile == [kind |-> "NoFile", ticker |-> << >>, gen |-> ""]
Corrupt == [kind |-> "Corrupt", ticker |-> << >>, gen |-> ""]

\* joblib.dump({"model": model, "feature_cols": feature_cols}, path): the
\* bundle is identified by the partition it was fitted on, and by whether the
\* training run in progress wrote it ("this_run") or an earlier one ("earlier").
Bundle(t, g) == [kind |-> "Bundle", ticker |-> t, gen |-> g]

IsBundle(f) == f.kind = "Bundle"

\* A file as a later run finds it.
Aged(f) == IF IsBundle(f) THEN Bundle(f.ticker, "earlier") ELSE f

GlobalAged(g) == IF g = "this_run" THEN "earlier" ELSE g

VARIABLES
    pc,               \* position of the running entry point
    raised_in,        \* function whose exception left the entry point, or ""
    dataset,          \* training dataset: instrument -> value counts of its target
    min_samples,      \* train_local_models parameter
    feature_cols,     \* [c for c in FEATURE_COLS if c in dataset.columns]
    global_run,       \* history: steps train_global_model took, and its exception
    registry,         \* local model directory: path -> NoFile, Corrupt or a bundle
    global_file,      \* the global model file: NoFile, Corrupt, "this_run" or "earlier"
    tickers,          \* sorted(dataset["code"].unique())
    i,                \* loop index of train_local_models (1-based, next to visit)
    trained_tickers,
    skipped_tickers,
    outcome,          \* history: branch each instrument took in this run
    exc_at,           \* history: where an exception was raised for each instrument
    bound_names,      \* local names of train_local_models currently bound
    sleeps,           \* history: time.sleep calls of this call of train_local_models
    global_weight,    \* screen_hybrid parameters after the defaults are applied
    local_weight,
    top_n,
    use_sentiment,
    genai_env,        \* "ok", "nolib" (no google.generativeai) or "nokey" (no API key)
    fetched,          \* history: fetch_stock_data was called by this entry point
    latest_df,        \* latest_df of screen_hybrid / screen_stocks
    idx,              \* loop index of the local inference loop (1-based)
    local_exc,        \* history: codes whose local predict_proba raised
    df,               \* df of apply_sentiment_filter (the scored window)
    sentiment_scores,
    sentiment_reasons,
    api_calls,        \* history: generate_content calls of this run
    sentiment_log,    \* history: events of the loop of apply_sentiment_filter
    exit_path,        \* history: return statement the entry point left by
    result,           \* the returned frame
    news_env,         \* fetch_news_rss: which optional libraries were imported
    news_headlines,   \* headlines of fetch_news_rss
    news_log,         \* history: the sources fetch_news_rss consulted
    g_feature_cols,   \* feature_cols of the global bundle screen_hybrid loaded
    missing_g,        \* missing_g of screen_hybrid
    fed               \* history: the frames passed to predict_proba

trainVars == << dataset, min_samples, feature_cols, global_run, registry, global_file, tickers, i,
                trained_tickers, skipped_tickers, outcome, exc_at, bound_names,
                sleeps >>

screenVars == << global_weight, local_weight, top_n, use_sentiment, genai_env,
                 fetched, latest_df, idx, local_exc, df, sentiment_scores,
                 sentiment_reasons, api_calls, sentiment_log, exit_path,
                 result >>

newsVars == << news_env, news_headlines, news_log >>

alignVars == << g_feature_cols, missing_g, fed >>

vars == << pc, raised_in, trainVars, screenVars, newsVars, alignVars >>

----------------------------------------------------------------------------
(***************************************************************************)
(* Training: models/train_hybrid.py                                        *)
(***************************************************************************)
Targets == {0, 1}

\* The target column of one instrument's rows, as the number of rows of each
\* target value (make_dataset makes the target an int that is 0 or 1).
Columns == { c \in [Targets -> 0..MaxRows] : c[0] + c[1] <= MaxRows }

Datasets == [Tickers -> Columns]

\* dataset[dataset["code"] == ticker]["target"]
Partition(t) == dataset[t]

\* len(ticker_data)
NumRows(y) == y[0] + y[1]

\* y.nunique()
nunique(y) == Cardinality({ v \in Targets : y[v] > 0 })

NoOutcome == [t \in Tickers |-> "none"]

\* The feature columns found in the dataset (line 79): none, or some.
FeatureLists == {<< >>, <<"f1">>}

\* train_global_model has not been called.
NotRun == [steps |-> << >>, exc |-> ""]

NoDataset == [t \in Tickers |-> [v \in Targets |-> 0]]

\* No entry point is running: only the model files exist.
Idle ==
    /\ pc = "idle"
    /\ raised_in = ""
    /\ dataset = NoDataset
    /\ min_samples = 0
    /\ feature_cols = << >>
    /\ global_run = NotRun
    /\ tickers = << >>
    /\ i = 1
    /\ trained_tickers = << >>
    /\ skipped_tickers = << >>
    /\ outcome = NoOutcome
    /\ exc_at = NoOutcome
    /\ bound_names = {}
    /\ sleeps = 0

\* No screening entry point has run.
ScreenIdle ==
    /\ global_weight = 0
    /\ local_weight = 0
    /\ top_n = 0
    /\ use_sentiment = FALSE
    /\ genai_env = "ok"
    /\ fetched = FALSE
    /\ latest_df = << >>
    /\ idx = 1
    /\ local_exc = {}
    /\ df = << >>
    /\ sentiment_scores = << >>
    /\ sentiment_reasons = << >>
    /\ api_calls = 0
    /\ sentiment_log = << >>
    /\ exit_path = ""
    /\ result = << >>

\* fetch_news_rss is not running.
NoLibs == [feedparser |-> FALSE, scraper |-> FALSE]

NewsIdle ==
    /\ news_env = NoLibs
    /\ news_headlines = << >>
    /\ news_log = << >>

\* No inference of screen_hybrid has been followed column by column.
AlignIdle ==
    /\ g_feature_cols = << >>
    /\ missing_g = << >>
    /\ fed = << >>

TrainInit ==
    /\ Idle
    /\ ScreenIdle
    /\ NewsIdle
    /\ AlignIdle
    /\ registry = [k \in Keys |-> NoFile]
    /\ global_file = "NoFile"

\* train_hybrid(dataset) is entered: a new training run.
TrainHybridBegin ==
    /\ UNCHANGED << newsVars, alignVars >>
    /\ UNCHANGED screenVars
    /\ pc = "idle"
    /\ pc' = "train_global"
    /\ dataset' \in Datasets
    /\ feature_cols' \in FeatureLists
    /\ min_samples' \in 1..MaxRows
    /\ registry' = [k \in Keys |-> Aged(registry[k])]
    /\ global_file' = GlobalAged(global_file)
    /\ UNCHANGED << raised_in, global_run, tickers, i, trained_tickers,
                    skipped_tickers, outcome, exc_at, bound_names, sleeps >>

\* len(dataset)
RECURSIVE TotalRows(_, _)
TotalRows(d, S) ==
    IF S = {} THEN 0
    ELSE LET t == CHOOSE u \in S : TRUE IN NumRows(d[t]) + TotalRows(d, S \ {t})

\* train_test_split(X, y, test_size=0.2, shuffle=False) raises ValueError
\* when the train part would be empty: n - ceil(0.2 * n) = 0.
SplitRaises(n) == n - ((n + 4) \div 5) = 0

\* What a call of train_global_model does: the steps it takes and the
\* exception that ends it, if any. The split raises or not by the number of
\* rows; fit and dump raise or not as the libraries and the disk decide,
\* also when feature_cols is empty.
GlobalOutcomes(n) ==
    IF SplitRaises(n)
    THEN {[steps |-> <<"split">>, exc |-> "ValueError"]}
    ELSE {[steps |-> <<"split", "fit">>, exc |-> "fit_error"],
          [steps |-> <<"split", "fit", "dump">>, exc |-> "dump_error"],
          [steps |-> <<"split", "fit", "dump">>, exc |-> ""]}

\* The global model file after the call: joblib.dump (line 103) replaces it,
\* and a dump that raises may leave a truncated file behind.
GlobalFileAfter(old, out, truncated) ==
    IF out.exc = "" THEN "this_run"
    ELSE IF out.exc = "dump_error" /\ truncated THEN "Corrupt"
    ELSE old

\* A train_hybrid that catches the failure of global training and goes on.
GlobalFailureRaises_Swallowed(out) == FALSE

\* train_hybrid calls train_global_model outside any try block (line 226): an
\* exception of global training leaves train_hybrid.
GlobalFailureRaises(out) == out.exc # ""

\* train_global_model (lines 76-106): fit and dump the global bundle, or raise
\* out of train_hybrid, which catches nothing (line 226).
TrainGlobalModel ==
    /\ UNCHANGED << newsVars, alignVars >>
    /\ UNCHANGED screenVars
    /\ pc = "train_global"
    /\ \E out \in GlobalOutcomes(TotalRows(dataset, Tickers)), truncated \in BOOLEAN :
         /\ out.exc # "dump_error" => ~truncated
         /\ global_run' = out
         /\ global_file' = GlobalFileAfter(global_file, out, truncated)
         /\ IF GlobalFailureRaises(out)
            THEN pc' = "raised" /\ raised_in' = "train_global_model"
            ELSE pc' = "train_local_begin" /\ UNCHANGED raised_in
    /\ UNCHANGED << dataset, min_samples, feature_cols, registry, tickers, i,
                    trained_tickers, skipped_tickers, outcome, exc_at,
                    bound_names, sleeps >>

\* train_local_models up to the loop: tickers = sorted(dataset["code"].unique())
TrainLocalBegin ==
    /\ UNCHANGED << newsVars, alignVars >>
    /\ UNCHANGED screenVars
    /\ pc = "train_local_begin"
    /\ tickers' = Sorted({ t \in Tickers : NumRows(dataset[t]) > 0 })
    /\ i' = 1
    /\ trained_tickers' = << >>
    /\ skipped_tickers' = << >>
    /\ pc' = "train_local_loop"
    /\ UNCHANGED << raised_in, dataset, min_samples, feature_cols, global_run, registry, global_file,
                    outcome, exc_at, bound_names, sleeps >>

\* len(ticker_data) < min_samples  (line 155)
InsufficientData(t) == NumRows(Partition(t)) < min_samples

\* The class check off by one: only an empty target column is skipped.
SingleClass_OffByOne(t) == nunique(Partition(t)) < 1

\* y.nunique() < 2  (line 165)
SingleClass(t) == nunique(Partition(t)) < 2

\* Places of the try block (lines 169-186) where an exception can be raised.
ExcPlaces == {"split", "fit", "dump"}

\* Local names bound by the try block when it is left: train_test_split binds
\* X_train, X_val, y_train, y_val together ("split"), the constructor binds
\* model before fit is called.
BoundAfterTry(exc) ==
    IF exc = "split" THEN {} ELSE {"split", "model"}

\* The file at path after joblib.dump(bundle, path): the bundle; when dump
\* raises, the file as it was (the failure came before the file was opened)
\* or a truncated file.
FileAfterDump(old, t, exc, truncated) ==
    IF exc = "none" THEN Bundle(t, "this_run")
    ELSE IF exc = "dump" /\ truncated THEN Corrupt
    ELSE old

\* A handler that covers fit errors only: an error of joblib.dump escapes.
HandlesTryException_FitOnly(exc) == exc # "dump"

\* except Exception (line 188): every exception of the try block is handled
\* inside the iteration.
HandlesTryException(exc) == TRUE

\* A handler that logs the failure and records nothing.
SkippedOnFailure_LogOnly(list, t) == list

\* skipped_tickers.append(ticker) in the handler (line 190).
SkippedOnFailure(list, t) == Append(list, t)

\* del X_train, X_val, y_train, y_val, model inside try/except NameError
\* (lines 194-197): deleting an unbound name raises NameError, which is
\* swallowed; the names before it in the statement are already deleted.
ReleaseRaises(names) == FALSE

BoundAfterRelease(names) ==
    IF "split" \in names THEN {} ELSE names

\* One iteration that ends in `continue` (lines 155-159, 165-167): the
\* instrument is appended to skipped_tickers; nothing after the try block runs.
SkipIteration(tag) ==
    LET t == tickers[i] IN
    /\ skipped_tickers' = Append(skipped_tickers, t)
    /\ outcome' = [outcome EXCEPT ![t] = tag]
    /\ i' = i + 1
    /\ UNCHANGED << pc, raised_in, dataset, min_samples, feature_cols, global_run, registry, global_file,
                    tickers, trained_tickers, exc_at, bound_names, sleeps >>

TrainLocalSkipInsufficient ==
    /\ UNCHANGED << newsVars, alignVars >>
    /\ UNCHANGED screenVars
    /\ pc = "train_local_loop"
    /\ i <= Len(tickers)
    /\ InsufficientData(tickers[i])
    /\ SkipIteration("SkippedInsufficientData")

TrainLocalSkipSingleClass ==
    /\ UNCHANGED << newsVars, alignVars >>
    /\ UNCHANGED screenVars
    /\ pc = "train_local_loop"
    /\ i <= Len(tickers)
    /\ ~InsufficientData(tickers[i])
    /\ SingleClass(tickers[i])
    /\ SkipIteration("SkippedSingleClass")

\* A loop that never sleeps.
SleepsAfter_Never(n) == n

\* if sleep_sec > 0: time.sleep(sleep_sec) (lines 201-202), sleep_sec being
\* TRAIN_SLEEP_SEC (lines 133-134).
SleepsAfter(n) == IF TRAIN_SLEEP_SEC > 0 THEN n + 1 ELSE n

\* Lines 192-206 after the try block: release, gc, sleep.
AfterTry(names) ==
    /\ bound_names' = BoundAfterRelease(names)
    /\ sleeps' = SleepsAfter(sleeps)
    /\ IF ReleaseRaises(names)
       THEN pc' = "raised" /\ raised_in' = "train_local_models" /\ UNCHANGED i
       ELSE i' = i + 1 /\ UNCHANGED << pc, raised_in >>

\* One iteration through the try block without exception (lines 169-186).
TrainLocalFit ==
    /\ UNCHANGED << newsVars, alignVars >>
    /\ UNCHANGED screenVars
    /\ pc = "train_local_loop"
    /\ i <= Len(tickers)
    /\ ~InsufficientData(tickers[i])
    /\ ~SingleClass(tickers[i])
    /\ LET t == tickers[i]
           path == LocalPath(t) IN
       /\ registry' = [registry EXCEPT
                         ![path] = FileAfterDump(registry[path], t, "none", FALSE)]
       /\ trained_tickers' = Append(trained_tickers, t)
       /\ outcome' = [outcome EXCEPT ![t] = "Trained"]
       /\ AfterTry(BoundAfterTry("none"))
    /\ UNCHANGED << dataset, min_samples, feature_cols, global_run, global_file, tickers,
                    skipped_tickers, exc_at >>

\* One iteration whose try block raises at `exc` (lines 169-190).
TrainLocalFail ==
    /\ UNCHANGED << newsVars, alignVars >>
    /\ UNCHANGED screenVars
    /\ pc = "train_local_loop"
    /\ i <= Len(tickers)
    /\ ~InsufficientData(tickers[i])
    /\ ~SingleClass(tickers[i])
    /\ \E exc \in ExcPlaces, truncated \in BOOLEAN :
         LET t == tickers[i]
             path == LocalPath(t) IN
         /\ exc # "dump" => ~truncated
         /\ registry' = [registry EXCEPT
                           ![path] = FileAfterDump(registry[path], t, exc, truncated)]
         /\ exc_at' = [exc_at EXCEPT ![t] = exc]
         /\ IF HandlesTryException(exc)
            THEN /\ skipped_tickers' = SkippedOnFailure(skipped_tickers, t)
                 /\ outcome' = [outcome EXCEPT ![t] = "Failed"]
                 /\ AfterTry(BoundAfterTry(exc))
            ELSE /\ pc' = "raised"
                 /\ raised_in' = "train_local_models"
                 /\ bound_names' = BoundAfterTry(exc)
                 /\ UNCHANGED << skipped_tickers, outcome, i, sleeps >>
    /\ UNCHANGED << dataset, min_samples, feature_cols, global_run, global_file, tickers,
                    trained_tickers >>

\* return trained_tickers, skipped_tickers (line 209), back in train_hybrid
\* (lines 235-243).
TrainLocalReturn ==
    /\ UNCHANGED << newsVars, alignVars >>
    /\ UNCHANGED screenVars
    /\ pc = "train_local_loop"
    /\ i > Len(tickers)
    /\ pc' = "train_done"
    /\ UNCHANGED << raised_in, trainVars >>

\* The process that ran the entry point ends (returned or raised): its
\* locals are gone, the model files stay.
Exit ==
    /\ pc \in {"train_done", "screen_done", "news_done", "infer_done", "raised"}
    /\ pc' = "idle"
    /\ g_feature_cols' = << >>
    /\ missing_g' = << >>
    /\ fed' = << >>
    /\ news_env' = NoLibs
    /\ news_headlines' = << >>
    /\ news_log' = << >>
    /\ raised_in' = ""
    /\ dataset' = NoDataset
    /\ min_samples' = 0
    /\ feature_cols' = << >>
    /\ global_run' = NotRun
    /\ tickers' = << >>
    /\ i' = 1
    /\ trained_tickers' = << >>
    /\ skipped_tickers' = << >>
    /\ outcome' = NoOutcome
    /\ exc_at' = NoOutcome
    /\ bound_names' = {}
    /\ sleeps' = 0
    /\ global_weight' = 0
    /\ local_weight' = 0
    /\ top_n' = 0
    /\ use_sentiment' = FALSE
    /\ genai_env' = "ok"
    /\ fetched' = FALSE
    /\ latest_df' = << >>
    /\ idx' = 1
    /\ local_exc' = {}
    /\ df' = << >>
    /\ sentiment_scores' = << >>
    /\ sentiment_reasons' = << >>
    /\ api_calls' = 0
    /\ sentiment_log' = << >>
    /\ exit_path' = ""
    /\ result' = << >>
    /\ UNCHANGED << registry, global_file >>

TrainNext ==
    \/ TrainHybridBegin
    \/ TrainGlobalModel
    \/ TrainLocalBegin
    \/ TrainLocalSkipInsufficient
    \/ TrainLocalSkipSingleClass
    \/ TrainLocalFit
    \/ TrainLocalFail
    \/ TrainLocalReturn
    \/ Exit

SpecTrain == TrainInit /\ [][TrainNext]_vars

\* train_local_models(dataset) as train_hybrid calls it (line 236) in the
\* first training run of a model directory: train_global_model has returned,
\* the local model directory is empty.
LocalCallInit ==
    /\ ScreenIdle
    /\ NewsIdle
    /\ AlignIdle
    /\ pc = "train_local_begin"
    /\ raised_in = ""
    /\ dataset \in { d \in Datasets : ~SplitRaises(TotalRows(d, Tickers)) }
    /\ min_samples \in 1..MaxRows
    /\ feature_cols = <<"f1">>
    /\ global_run = [steps |-> <<"split", "fit", "dump">>, exc |-> ""]
    /\ registry = [k \in Keys |-> NoFile]
    /\ global_file = "this_run"
    /\ tickers = << >>
    /\ i = 1
    /\ trained_tickers = << >>
    /\ skipped_tickers = << >>
    /\ outcome = NoOutcome
    /\ exc_at = NoOutcome
    /\ bound_names = {}
    /\ sleeps = 0

LocalCallNext ==
    \/ TrainLocalBegin
    \/ TrainLocalSkipInsufficient
    \/ TrainLocalSkipSingleClass
    \/ TrainLocalFit
    \/ TrainLocalFail
    \/ TrainLocalReturn

\* The call is sequential code of one thread: a statement that can run, runs.
SpecLocalCall ==
    LocalCallInit /\ [][LocalCallNext]_vars /\ WF_vars(LocalCallNext)


----------------------------------------------------------------------------
(***************************************************************************)
(* Properties of train_local_models.                                       *)
(***************************************************************************)
InLocalCall == pc \in {"train_local_loop", "train_done"}

\* The eligibility the specification states for a local artifact.
HasEnoughRows(t) == NumRows(dataset[t]) >= min_samples
HasBothClasses(t) == \E v, w \in Targets : v # w /\ dataset[t][v] > 0 /\ dataset[t][w] > 0

WrittenInThisCall(t) == registry[LocalPath(t)] = Bundle(t, "this_run")

\* C1: within one call of train_local_models an artifact is written for
\* instrument X only if X's partition has at least min_samples rows and at
\* least 2 distinct target values; an instrument failing either condition
\* gets no artifact in that call (and is not reported as trained).
C1_ArtifactOnlyIfEligible ==
    InLocalCall =>
        \A t \in Tickers :
            (WrittenInThisCall(t) \/ t \in Range(trained_tickers))
                => (HasEnoughRows(t) /\ HasBothClasses(t))

\* A finished call that wrote an artifact for one instrument and skipped one
\* instrument for each of the two conditions.
C1_Witness ==
    /\ pc = "train_done"
    /\ \E t, u, w \in Tickers :
         /\ WrittenInThisCall(t)
         /\ u \in Range(tickers) /\ ~HasEnoughRows(u) /\ ~WrittenInThisCall(u)
         /\ w \in Range(tickers) /\ HasEnoughRows(w) /\ ~HasBothClasses(w)
         /\ ~WrittenInThisCall(w)

\* The outcome of an instrument whose iteration raises nothing.
OutcomeWithoutFailure(t) ==
    IF ~HasEnoughRows(t) THEN "SkippedInsufficientData"
    ELSE IF ~HasBothClasses(t) THEN "SkippedSingleClass"
    ELSE "Trained"

\* C2: an exception raised while fitting or persisting one instrument's model
\* is caught inside that instrument's iteration: the instrument is recorded
\* as not trained, the call does not raise, and every other instrument of the
\* sorted order is processed with the outcome it has without the failure.
C2_FailureIsolated ==
    /\ pc = "raised" => raised_in # "train_local_models"
    /\ pc = "train_done" =>
         \A t \in Range(tickers) :
            /\ exc_at[t] # "none" =>
                 (t \in Range(skipped_tickers) /\ t \notin Range(trained_tickers))
            /\ exc_at[t] = "none" =>
                 /\ outcome[t] = OutcomeWithoutFailure(t)
                 /\ (t \in Range(trained_tickers)) <=> (outcome[t] = "Trained")

\* A finished call in which the first instrument failed while persisting and
\* a later one was trained.
C2_Witness ==
    /\ pc = "train_done"
    /\ Len(tickers) >= 2
    /\ exc_at[tickers[1]] = "dump"
    /\ \E k \in 2..Len(tickers) : outcome[tickers[k]] = "Trained"

NotTrainedTags == {"SkippedInsufficientData", "SkippedSingleClass", "Failed"}

DistinctInstruments == { t \in Tickers : NumRows(dataset[t]) > 0 }

\* The instruments the loop of train_local_models has been through, by the
\* branch each one recorded.
Visited == { t \in Tickers : outcome[t] # "none" }

\* The loop has visited the first i - 1 instruments of the sorted order, each
\* once, and each sits in exactly one of the two lists, once.
VisitedInOrderOnce ==
    /\ Range(tickers) = DistinctInstruments
    /\ \A j, k \in 1..Len(tickers) : j < k => StrLess(tickers[j], tickers[k])
    /\ i \in 1..(Len(tickers) + 1)
    /\ Visited = { tickers[k] : k \in 1..(i - 1) }
    /\ Range(trained_tickers) \cup Range(skipped_tickers) = Visited
    /\ Range(trained_tickers) \cap Range(skipped_tickers) = {}
    /\ Cardinality(Range(trained_tickers)) = Len(trained_tickers)
    /\ Cardinality(Range(skipped_tickers)) = Len(skipped_tickers)

\* On return the two lists partition the distinct instruments.
ReturnedPartition ==
    /\ Range(trained_tickers) \cup Range(skipped_tickers) = DistinctInstruments
    /\ Range(trained_tickers) \cap Range(skipped_tickers) = {}
    /\ Len(trained_tickers) + Len(skipped_tickers) = Cardinality(DistinctInstruments)

\* C21: for any finite dataset train_local_models terminates after visiting
\* every distinct instrument exactly once in sorted order, and on return the
\* trained list and the skipped list are disjoint, hold no duplicates and
\* together hold exactly the distinct instruments of the dataset.
C21_TerminatesWithPartition ==
    /\ [](pc = "train_local_loop" => VisitedInOrderOnce)
    /\ [](pc = "train_done" => (VisitedInOrderOnce /\ ReturnedPartition))
    /\ (pc = "train_local_begin") ~> (pc = "train_done")

\* A call that returned after three instruments, with both lists non-empty
\* and one iteration that raised.
C21_Witness ==
    /\ pc = "train_done"
    /\ Len(tickers) = 3
    /\ trained_tickers # << >>
    /\ skipped_tickers # << >>
    /\ \E t \in Tickers : outcome[t] = "Failed"


----------------------------------------------------------------------------
(***************************************************************************)
(* Screening: screening/screen_hybrid.py, screening/screen.py,             *)
(* sentiment/news_sentiment.py, with the settings of config.py.            *)
(***************************************************************************)
GLOBAL_WEIGHT == 6              \* 0.6, in tenths
LOCAL_WEIGHT == 4               \* 0.4, in tenths
MIN_VOLUME == 500000
TOP_N == 6
MIN_PROB == 50                  \* 0.5, in hundredths
SENTIMENT_TOP_N == 30
SENTIMENT_MIN_SCORE == 4
SENTIMENT_DEFAULT_SCORE == 3
SENTIMENT_API_SLEEP == 2

MaxTopN == 1        \* largest top_n a caller passes explicitly

\* An argument left at its default None, or given as <<value>>.
None == << >>

\* if arg is None: arg = DEFAULT  (screen_hybrid lines 80-89)
ArgOr(arg, default) == IF arg = None THEN default ELSE arg[1]

\* np.nan, and a float p as <<p>>, in a column that may hold either.
NaN == << >>

IsNaN(x) == x = NaN

Min(a, b) == IF a <= b THEN a ELSE b
Max(a, b) == IF a >= b THEN a ELSE b

\* Values the inputs are drawn from.
\* (global_weight, local_weight) as passed: both defaulted, global_weight
\* alone overridden, both given.
WeightArgs == { <<None, None>>, << <<10>>, None >>, << <<10>>, <<0>> >> }
TopNArgs == {None} \cup { <<n>> : n \in 1..MaxTopN }
Volumes == {MIN_VOLUME - 1, MIN_VOLUME}
GlobalProbs == {30, 80}
LocalProbs == {90}
GenaiEnvs == {"ok", "nolib", "nokey"}

\* frame.head(n), n >= 0
head(frame, n) == SubSeq(frame, 1, Min(n, Len(frame)))

\* frame.sort_values(col, ascending=False): descending, rows with equal keys
\* keep their order (frames here are far below the size at which the sort
\* stops being stable).
\* The comparison turned round: ascending order.
RECURSIVE InsertAsc(_, _, _)
InsertAsc(sorted, row, col) ==
    IF sorted = << >> THEN <<row>>
    ELSE IF row[col] < Head(sorted)[col] THEN <<row>> \o sorted
    ELSE <<Head(sorted)>> \o InsertAsc(Tail(sorted), row, col)

RECURSIVE InsertDesc(_, _, _)
InsertDesc(sorted, row, col) ==
    IF sorted = << >> THEN <<row>>
    ELSE IF row[col] > Head(sorted)[col] THEN <<row>> \o sorted
    ELSE <<Head(sorted)>> \o InsertDesc(Tail(sorted), row, col)

RECURSIVE sort_values_desc(_, _)
sort_values_desc(frame, col) ==
    IF frame = << >> THEN << >>
    ELSE InsertDesc(sort_values_desc(SubSeq(frame, 1, Len(frame) - 1), col),
                    frame[Len(frame)], col)

\* A filter that lets every row through.
VolumeProbFilter_KeepAll(frame, col) == frame

\* frame[(frame["Volume"] >= min_volume) & (frame[col] >= min_prob)]
RECURSIVE VolumeProbFilter(_, _)
VolumeProbFilter(frame, col) ==
    IF frame = << >> THEN << >>
    ELSE (IF Head(frame).Volume >= MIN_VOLUME /\ Head(frame)[col] >= MIN_PROB
          THEN <<Head(frame)>> ELSE << >>)
         \o VolumeProbFilter(Tail(frame), col)

\* The rows of features_dict with a non-empty frame, one latest row per code
\* (lines 104-119), in the order of the dict; `vol` and `g` give each row's
\* Volume and the probability the global model assigns to its features.
LatestRows(S, vol, g) ==
    LET order == Sorted(S) IN
    [k \in 1..Len(order) |->
        [code |-> order[k], Volume |-> vol[order[k]], prob_global |-> g[order[k]],
         prob_local |-> NaN, prob_hybrid |-> 0]]

\* The fallback weighted like the fused case: global_weight * pg alone.
hybrid_score_PartialWeight(row) ==
    IF IsNaN(row.prob_local) THEN (global_weight * row.prob_global) \div 10
    ELSE (global_weight * row.prob_global + local_weight * row.prob_local[1]) \div 10

\* _hybrid_score (lines 170-177)
hybrid_score(row) ==
    IF IsNaN(row.prob_local) THEN row.prob_global
    ELSE (global_weight * row.prob_global + local_weight * row.prob_local[1]) \div 10

\* latest_df["prob_hybrid"] = latest_df.apply(_hybrid_score, axis=1)
WithHybrid(frame) ==
    [k \in 1..Len(frame) |-> [frame[k] EXCEPT !.prob_hybrid = hybrid_score(frame[k])]]

\* filtered (lines 182-185)
Filtered(frame) == VolumeProbFilter(frame, "prob_hybrid")

\* The ranking without sentiment (lines 206-209).
RankedTopN(frame) == head(sort_values_desc(Filtered(frame), "prob_hybrid"), top_n)

\* pre_sentiment (lines 189-193)
PreSentiment(frame) ==
    head(sort_values_desc(Filtered(frame), "prob_hybrid"), Max(top_n, SENTIMENT_TOP_N))

\* Model directories an earlier training can have left.
FilesAt(k) == {NoFile, Corrupt} \cup { Bundle(t, "earlier") : t \in { u \in Tickers : LocalPath(u) = k } }

ModelDirs == { r \in [Keys -> UNION { FilesAt(k) : k \in Keys }] : \A k \in Keys : r[k] \in FilesAt(k) }

ScreenInit ==
    /\ Idle
    /\ ScreenIdle
    /\ NewsIdle
    /\ AlignIdle
    /\ registry \in ModelDirs
    /\ global_file \in {"NoFile", "Corrupt", "earlier"}

\* screen_hybrid(...) is entered; lines 80-89 apply the defaults.
ScreenHybridBegin ==
    /\ UNCHANGED << newsVars, alignVars >>
    /\ pc = "idle"
    /\ pc' = "screen_load"
    /\ \E w \in WeightArgs, n \in TopNArgs, us \in BOOLEAN :
         /\ global_weight' = ArgOr(w[1], GLOBAL_WEIGHT)
         /\ local_weight' = ArgOr(w[2], LOCAL_WEIGHT)
         /\ top_n' = ArgOr(n, TOP_N)
         /\ use_sentiment' = us
    /\ UNCHANGED << raised_in, trainVars, genai_env, fetched, latest_df, idx, local_exc, df,
                    sentiment_scores, sentiment_reasons, api_calls, sentiment_log, exit_path,
                    result >>

\* A loader that tolerates a missing global model file.
GlobalLoadRaises_Never(file) == FALSE

\* if not os.path.exists(path): raise FileNotFoundError (lines 35-36);
\* joblib.load of a truncated file raises (line 37).
GlobalLoadRaises(file) == file \in {"NoFile", "Corrupt"}

\* _load_global_model (lines 31-38, called at line 92).
ScreenLoadGlobal ==
    /\ UNCHANGED << newsVars, alignVars >>
    /\ pc = "screen_load"
    /\ IF GlobalLoadRaises(global_file)
       THEN pc' = "raised" /\ raised_in' = "_load_global_model"
       ELSE pc' = "screen_fetch" /\ UNCHANGED raised_in
    /\ UNCHANGED << trainVars, screenVars >>

\* Lines 94-117: no latest row at all, return pd.DataFrame().
ScreenFetchNoRows ==
    /\ UNCHANGED << newsVars, alignVars >>
    /\ pc = "screen_fetch"
    /\ fetched' = TRUE
    /\ latest_df' = << >>
    /\ result' = << >>
    /\ exit_path' = "no_rows"
    /\ pc' = "screen_done"
    /\ UNCHANGED << raised_in, trainVars, global_weight, local_weight, top_n,
                    use_sentiment, genai_env, idx, local_exc, df, sentiment_scores,
                    sentiment_reasons, api_calls, sentiment_log >>

\* Lines 94-137: fetch, latest rows, global inference in one batch.
ScreenFetch ==
    /\ UNCHANGED << newsVars, alignVars >>
    /\ pc = "screen_fetch"
    /\ fetched' = TRUE
    /\ \E S \in (SUBSET Tickers) \ {{}} :
         \E vol \in [S -> Volumes], g \in [S -> GlobalProbs] :
            latest_df' = LatestRows(S, vol, g)
    /\ idx' = 1
    /\ pc' = "screen_local"
    /\ UNCHANGED << raised_in, trainVars, global_weight, local_weight, top_n,
                    use_sentiment, genai_env, local_exc, df, sentiment_scores,
                    sentiment_reasons, api_calls, sentiment_log, exit_path, result >>


\* What local_model.predict_proba does on a row: raise, or a probability.
LocalOutcomes ==
    {[raises |-> TRUE, prob |-> 0]} \cup { [raises |-> FALSE, prob |-> p] : p \in LocalProbs }

\* predict_proba called outside any try block.
CatchesLocalInference_No == FALSE

\* except Exception: pass (lines 156-157)
CatchesLocalInference == TRUE

\* local_probs[idx] after the try block (lines 152-157): assigned only when
\* predict_proba returned.
LocalProbAfter(out) == IF out.raises THEN NaN ELSE <<out.prob>>

\* One iteration of the local inference loop (lines 140-161).
ScreenLocalStep ==
    /\ UNCHANGED << newsVars, alignVars >>
    /\ pc = "screen_local"
    /\ idx <= Len(latest_df)
    /\ LET row == latest_df[idx]
           file == registry[LocalPath(row.code)] IN
       \/ /\ file = NoFile                       \* (None, None): continue
          /\ idx' = idx + 1
          /\ UNCHANGED << pc, raised_in, latest_df, local_exc >>
       \/ /\ file = Corrupt                      \* joblib.load raises (line 51)
          /\ pc' = "raised"
          /\ raised_in' = "_load_local_model"
          /\ UNCHANGED << idx, latest_df, local_exc >>
       \/ /\ IsBundle(file)
          /\ \E out \in LocalOutcomes :
               IF out.raises /\ ~CatchesLocalInference
               THEN /\ pc' = "raised"
                    /\ raised_in' = "predict_proba"
                    /\ local_exc' = local_exc \cup {row.code}
                    /\ UNCHANGED << idx, latest_df >>
               ELSE /\ latest_df' = [latest_df EXCEPT
                                       ![idx].prob_local = LocalProbAfter(out)]
                    /\ local_exc' = IF out.raises THEN local_exc \cup {row.code}
                                    ELSE local_exc
                    /\ idx' = idx + 1
                    /\ UNCHANGED << pc, raised_in >>
    /\ UNCHANGED << trainVars, global_weight, local_weight, top_n, use_sentiment,
                    genai_env, fetched, df, sentiment_scores, sentiment_reasons,
                    api_calls, sentiment_log, exit_path, result >>

\* Lines 163-212 with use_sentiment false: fuse, filter, rank, return.
ScreenRank ==
    /\ UNCHANGED << newsVars, alignVars >>
    /\ pc = "screen_local"
    /\ idx > Len(latest_df)
    /\ ~use_sentiment
    /\ latest_df' = WithHybrid(latest_df)
    /\ result' = RankedTopN(latest_df')
    /\ exit_path' = "plain"
    /\ pc' = "screen_done"
    /\ UNCHANGED << raised_in, trainVars, global_weight, local_weight, top_n,
                    use_sentiment, genai_env, fetched, idx, local_exc, df,
                    sentiment_scores, sentiment_reasons, api_calls, sentiment_log >>

\* Lines 163-193 with use_sentiment true: fuse, filter, build pre_sentiment.
ScreenPreSentiment ==
    /\ UNCHANGED << newsVars, alignVars >>
    /\ pc = "screen_local"
    /\ idx > Len(latest_df)
    /\ use_sentiment
    /\ latest_df' = WithHybrid(latest_df)
    /\ pc' = "sentiment_call"
    /\ UNCHANGED << raised_in, trainVars, global_weight, local_weight, top_n,
                    use_sentiment, genai_env, fetched, idx, local_exc, df,
                    sentiment_scores, sentiment_reasons, api_calls, sentiment_log, exit_path,
                    result >>

\* A fallback that returns the widened window built for the sentiment stage.
FallbackResult_Window(frame) == PreSentiment(frame)

\* The frame returned when the sentiment stage raised (lines 202-212): the
\* code falls out of the except block into the ranking without sentiment.
FallbackResult(frame) == RankedTopN(frame)

\* except Exception as e (line 202)
CatchesSentimentException == TRUE

\* An exception leaves the try block of lines 195-201 (the import, or anything
\* apply_sentiment_filter does not handle itself); the locals of
\* apply_sentiment_filter are gone with its frame.
SentimentRaises ==
    /\ UNCHANGED << newsVars, alignVars >>
    /\ pc \in {"sentiment_call", "sentiment_loop"}
    /\ IF CatchesSentimentException
       THEN /\ result' = FallbackResult(latest_df)
            /\ exit_path' = "fallback"
            /\ pc' = "screen_done"
            /\ UNCHANGED raised_in
       ELSE /\ pc' = "raised"
            /\ raised_in' = "apply_sentiment_filter"
            /\ UNCHANGED << result, exit_path >>
    /\ df' = << >>
    /\ sentiment_scores' = << >>
    /\ sentiment_reasons' = << >>
    /\ sentiment_log' = << >>
    /\ UNCHANGED << trainVars, global_weight, local_weight, top_n,
                    use_sentiment, genai_env, fetched, latest_df, idx, local_exc,
                    api_calls >>

\* The import of line 196 runs news_sentiment.py lines 37-51, which fix
\* whether google.generativeai is there and whether GEMINI_API_KEY is set;
\* then apply_sentiment_filter(pre_sentiment) up to its loop (lines 300-318).
\* An empty input is returned as it is (lines 307-309, then 199-201).
SentimentBegin ==
    /\ UNCHANGED << newsVars, alignVars >>
    /\ pc = "sentiment_call"
    /\ genai_env' \in GenaiEnvs
    /\ IF PreSentiment(latest_df) = << >>
       THEN /\ result' = head(PreSentiment(latest_df), top_n)
            /\ exit_path' = "sentiment"
            /\ pc' = "screen_done"
            /\ UNCHANGED df
       ELSE /\ df' = head(sort_values_desc(PreSentiment(latest_df), "prob_hybrid"),
                          SENTIMENT_TOP_N)
            /\ pc' = "sentiment_loop"
            /\ UNCHANGED << result, exit_path >>
    /\ UNCHANGED << raised_in, trainVars, global_weight, local_weight, top_n,
                    use_sentiment, fetched, latest_df, idx, local_exc,
                    sentiment_scores, sentiment_reasons, api_calls, sentiment_log >>

\* What the call of fetch_news_rss does (line 326): it returns no headline,
\* returns some, or raises.
NewsOutcomes == {"none", "some", "raise"}

\* fetch_news_rss called outside any try block.
CatchesNewsException_No == FALSE

\* except Exception as e: headlines = [] (lines 335-337)
CatchesNewsException == TRUE

\* headlines as analyze_sentiment_gemini receives them (lines 325-340).
HeadlinesAfter(news) == IF news = "raise" THEN "none" ELSE news

\* What the Gemini call does (lines 243-252): it raises, or it answers with a
\* text that holds no JSON object that can be read, or with a JSON object
\* whose score is the given integer.
ParsedScores == {2, 4}
OutOfRangeScores == {0, 6}
ApiOutcomes ==
    {[kind |-> "raise", score |-> 0], [kind |-> "unparsable", score |-> 0]}
    \cup { [kind |-> "json", score |-> n] : n \in ParsedScores \cup OutOfRangeScores }

\* A parser that takes any integer as a score.
parse_gemini_response_AnyScore(api) ==
    IF api.kind = "json"
    THEN <<[score |-> api.score, reason |-> "parsed"]>>
    ELSE None

\* _parse_gemini_response (lines 161-192): None unless 1 <= score <= 5.
parse_gemini_response(api) ==
    IF api.kind = "json" /\ 1 <= api.score /\ api.score <= 5
    THEN <<[score |-> api.score, reason |-> "parsed"]>>
    ELSE None

\* A default that passes the final filter.
default_result_Passing == [score |-> SENTIMENT_MIN_SCORE, reason |-> "undeterminable"]

\* default_result (line 220)
default_result == [score |-> SENTIMENT_DEFAULT_SCORE, reason |-> "undeterminable"]

\* generate_content called whatever the headlines are.
CallsApi_WithoutHeadlines(env, news) == env = "ok"

\* analyze_sentiment_gemini reaches generate_content (lines 222-245).
CallsApi(env, news) == env = "ok" /\ news = "some"

\* except Exception as e: return default_result (lines 260-262)
CatchesApiException == TRUE

\* analyze_sentiment_gemini (lines 220-262), an exception of the API call
\* being caught.
analyze_sentiment_gemini(env, news, api) ==
    IF env = "nolib" THEN default_result
    ELSE IF env = "nokey" THEN default_result
    ELSE IF news = "none"
         THEN [score |-> SENTIMENT_DEFAULT_SCORE, reason |-> "no_news"]
    ELSE IF api.kind = "raise" THEN default_result
    ELSE IF parse_gemini_response(api) # None THEN parse_gemini_response(api)[1]
    ELSE default_result

\* The API call raised, or its answer holds no score in 1..5.
ApiFailed(api) ==
    \/ api.kind \in {"raise", "unparsable"}
    \/ api.kind = "json" /\ (api.score < 1 \/ api.score > 5)

\* A loop without delay.
SleepEvents_None(k) == << >>

\* if api_sleep > 0: time.sleep(api_sleep) (lines 350-351), api_sleep being
\* SENTIMENT_API_SLEEP (lines 304-305).
SleepEvents(k) ==
    IF SENTIMENT_API_SLEEP > 0 THEN <<[k |-> k, ev |-> "sleep"]>> ELSE << >>

\* The events of the iteration for row k, in the order of lines 325-351:
\* the news fetch (when it raised or found nothing), the API call (when
\* made), the sleep.
IterationEvents(k, env, news, api) ==
    (IF news = "raise" THEN <<[k |-> k, ev |-> "news_failed"]>>
     ELSE IF news = "none" THEN <<[k |-> k, ev |-> "news_empty"]>>
     ELSE << >>)
    \o (IF CallsApi(env, HeadlinesAfter(news))
        THEN <<[k |-> k, ev |-> IF ApiFailed(api) THEN "call_failed" ELSE "call_ok"]>>
        ELSE << >>)
    \o SleepEvents(k)

\* The events up to the exception that leaves the iteration for row k.
EscapeEvents(k, news) ==
    IF news = "raise" THEN <<[k |-> k, ev |-> "news_failed"]>>
    ELSE <<[k |-> k, ev |-> "call_failed"]>>

\* An exception of the iteration is not caught inside apply_sentiment_filter.
Escapes(env, news, api) ==
    \/ news = "raise" /\ ~CatchesNewsException
    \/ /\ CallsApi(env, HeadlinesAfter(news))
       /\ api.kind = "raise"
       /\ ~CatchesApiException

\* One iteration of the loop of apply_sentiment_filter (lines 320-351). An
\* exception that is caught nowhere in the loop reaches line 202 of
\* screen_hybrid.
SentimentStep ==
    /\ UNCHANGED << newsVars, alignVars >>
    /\ pc = "sentiment_loop"
    /\ Len(sentiment_scores) < Len(df)
    /\ \E news \in NewsOutcomes, api \in ApiOutcomes :
         LET k == Len(sentiment_scores) + 1
             headlines == HeadlinesAfter(news)
             r == analyze_sentiment_gemini(genai_env, headlines, api) IN
         /\ ~CallsApi(genai_env, headlines) => api.kind = "raise"
         /\ api_calls' = IF CallsApi(genai_env, headlines)
                         THEN api_calls + 1 ELSE api_calls
         /\ IF Escapes(genai_env, news, api)
            THEN /\ sentiment_log' = sentiment_log \o EscapeEvents(k, news)
                 /\ result' = FallbackResult(latest_df)
                 /\ exit_path' = "fallback"
                 /\ pc' = "screen_done"
                 /\ df' = << >>
                 /\ sentiment_scores' = << >>
                 /\ sentiment_reasons' = << >>
            ELSE /\ sentiment_scores' = Append(sentiment_scores, r.score)
                 /\ sentiment_reasons' = Append(sentiment_reasons, r.reason)
                 /\ sentiment_log' = sentiment_log
                                       \o IterationEvents(k, genai_env, news, api)
                 /\ UNCHANGED << pc, df, exit_path, result >>
    /\ UNCHANGED << raised_in, trainVars, global_weight, local_weight, top_n,
                    use_sentiment, genai_env, fetched, latest_df, idx, local_exc >>

\* df["sentiment_score"] = ..., df["sentiment_reason"] = ... (lines 353-354)
WithSentiment(frame, scores, reasons) ==
    [k \in 1..Len(frame) |->
        [code |-> frame[k].code, Volume |-> frame[k].Volume,
         prob_global |-> frame[k].prob_global, prob_local |-> frame[k].prob_local,
         prob_hybrid |-> frame[k].prob_hybrid,
         sentiment_score |-> scores[k], sentiment_reason |-> reasons[k]]]

\* A final filter that lets every scored candidate through.
ScoreFilter_KeepAll(frame, min_score) == frame

\* df[df["sentiment_score"] >= min_score] (line 357)
RECURSIVE ScoreFilter(_, _)
ScoreFilter(frame, min_score) ==
    IF frame = << >> THEN << >>
    ELSE (IF Head(frame).sentiment_score >= min_score THEN <<Head(frame)>> ELSE << >>)
         \o ScoreFilter(Tail(frame), min_score)

\* Lines 353-366 of apply_sentiment_filter.
SentimentFiltered(frame, scores, reasons) ==
    sort_values_desc(ScoreFilter(WithSentiment(frame, scores, reasons),
                                 SENTIMENT_MIN_SCORE), "prob_hybrid")

\* apply_sentiment_filter returns and its locals go, screen_hybrid truncates
\* (lines 353-366, 199-201).
SentimentFinish ==
    /\ UNCHANGED << newsVars, alignVars >>
    /\ pc = "sentiment_loop"
    /\ Len(sentiment_scores) = Len(df)
    /\ result' = head(SentimentFiltered(df, sentiment_scores, sentiment_reasons), top_n)
    /\ exit_path' = "sentiment"
    /\ pc' = "screen_done"
    /\ df' = << >>
    /\ sentiment_scores' = << >>
    /\ sentiment_reasons' = << >>
    /\ sentiment_log' = << >>
    /\ UNCHANGED << raised_in, trainVars, global_weight, local_weight, top_n,
                    use_sentiment, genai_env, fetched, latest_df, idx, local_exc,
                    api_calls >>

\* screen_stocks(...) is entered (screen.py lines 15-23).
ScreenStocksBegin ==
    /\ UNCHANGED << newsVars, alignVars >>
    /\ pc = "idle"
    /\ pc' = "legacy_load"
    /\ \E n \in TopNArgs : top_n' = ArgOr(n, TOP_N)
    /\ UNCHANGED << raised_in, trainVars, global_weight, local_weight,
                    use_sentiment, genai_env, fetched, latest_df, idx, local_exc,
                    df, sentiment_scores, sentiment_reasons, api_calls, sentiment_log, exit_path,
                    result >>

\* screen.py lines 26-30: MODEL_PATH is written by no modelled operation, so
\* whether the file exists is an input.
ScreenStocksLoad ==
    /\ UNCHANGED << newsVars, alignVars >>
    /\ pc = "legacy_load"
    /\ \E exists \in BOOLEAN :
         IF exists THEN pc' = "legacy_fetch" /\ UNCHANGED raised_in
         ELSE pc' = "raised" /\ raised_in' = "screen_stocks"
    /\ UNCHANGED << trainVars, screenVars >>

\* The latest rows of screen_stocks with the model's probability (lines 38-60).
LegacyRows(S, vol, g) ==
    LET order == Sorted(S) IN
    [k \in 1..Len(order) |->
        [code |-> order[k], Volume |-> vol[order[k]], prob |-> g[order[k]]]]

\* screen.py lines 63-69
LegacyResult(frame) == head(sort_values_desc(VolumeProbFilter(frame, "prob"), "prob"), top_n)

\* screen.py lines 32-71.
ScreenStocksRun ==
    /\ UNCHANGED << newsVars, alignVars >>
    /\ pc = "legacy_fetch"
    /\ fetched' = TRUE
    /\ \E S \in SUBSET Tickers :
         \E vol \in [S -> Volumes], g \in [S -> GlobalProbs] :
            /\ latest_df' = LegacyRows(S, vol, g)
            /\ result' = IF S = {} THEN << >> ELSE LegacyResult(latest_df')
            /\ exit_path' = IF S = {} THEN "legacy_no_rows" ELSE "legacy"
    /\ pc' = "screen_done"
    /\ UNCHANGED << raised_in, trainVars, global_weight, local_weight, top_n,
                    use_sentiment, genai_env, idx, local_exc, df, sentiment_scores,
                    sentiment_reasons, api_calls, sentiment_log >>

ScreenNext ==
    \/ ScreenHybridBegin
    \/ ScreenLoadGlobal
    \/ ScreenFetchNoRows
    \/ ScreenFetch
    \/ ScreenLocalStep
    \/ ScreenRank
    \/ ScreenPreSentiment
    \/ SentimentRaises
    \/ SentimentBegin
    \/ SentimentStep
    \/ SentimentFinish
    \/ ScreenStocksBegin
    \/ ScreenStocksLoad
    \/ ScreenStocksRun
    \/ Exit

SpecScreen == ScreenInit /\ [][ScreenNext]_vars

(***************************************************************************)
(* The window of the sentiment stage (screen_hybrid lines 187-193, then     *)
(* apply_sentiment_filter lines 300-312) on frames of more rows than        *)
(* SENTIMENT_TOP_N: the state of screen_hybrid after the loop of lines      *)
(* 140-161, for a universe in which no instrument has a local model file.   *)
(***************************************************************************)
MaxCandidates == 32     \* rows of latest_df that pass the filters

\* The ticker of the k-th instrument: two decimal digits and ".T".
WideCode(k) == <<48 + (k \div 10), 48 + (k % 10), Dot, 84>>

\* latest_df after lines 104-163: n rows that pass the filters, in rising
\* order of prob_global, after a row of too small a volume when low holds.
WideRows(n, low) ==
    (IF low THEN <<[code |-> WideCode(0), Volume |-> MIN_VOLUME - 1,
                    prob_global |-> 100, prob_local |-> NaN, prob_hybrid |-> 0]>>
     ELSE << >>)
    \o [k \in 1..n |->
          [code |-> WideCode(k), Volume |-> MIN_VOLUME, prob_global |-> MIN_PROB + k,
           prob_local |-> NaN, prob_hybrid |-> 0]]

\* The values of top_n around SENTIMENT_TOP_N.
WideTopN == {TOP_N, SENTIMENT_TOP_N - 1, SENTIMENT_TOP_N, SENTIMENT_TOP_N + 1}

WindowInit ==
    /\ NewsIdle
    /\ AlignIdle
    /\ pc = "screen_local"
    /\ raised_in = ""
    /\ dataset = NoDataset
    /\ min_samples = 0
    /\ feature_cols = << >>
    /\ global_run = NotRun
    /\ tickers = << >>
    /\ i = 1
    /\ trained_tickers = << >>
    /\ skipped_tickers = << >>
    /\ outcome = NoOutcome
    /\ exc_at = NoOutcome
    /\ bound_names = {}
    /\ sleeps = 0
    /\ registry = [k \in Keys |-> NoFile]
    /\ global_file = "earlier"
    /\ global_weight = GLOBAL_WEIGHT
    /\ local_weight = LOCAL_WEIGHT
    /\ top_n \in WideTopN
    /\ use_sentiment = TRUE
    /\ genai_env = "ok"
    /\ fetched = TRUE
    /\ \E n \in 0..MaxCandidates, low \in BOOLEAN : latest_df = WideRows(n, low)
    /\ idx = Len(latest_df) + 1
    /\ local_exc = {}
    /\ df = << >>
    /\ sentiment_scores = << >>
    /\ sentiment_reasons = << >>
    /\ api_calls = 0
    /\ sentiment_log = << >>
    /\ exit_path = ""
    /\ result = << >>

WindowNext == ScreenPreSentiment \/ SentimentBegin

SpecWindow == WindowInit /\ [][WindowNext]_vars

----------------------------------------------------------------------------
(***************************************************************************)
(* fetch_news_rss (sentiment/news_sentiment.py, lines 65-131).  Titles and *)
(* link texts are strings, modelled as sequences of code points.           *)
(***************************************************************************)
MaxEntries == 3     \* entries of one feed, links of one page

Space == 32

\* str.strip() for strings whose only whitespace is the space.
RECURSIVE lstrip(_)
lstrip(s) == IF s # << >> /\ Head(s) = Space THEN lstrip(Tail(s)) ELSE s

RECURSIVE rstrip(_)
rstrip(s) ==
    IF s # << >> /\ s[Len(s)] = Space THEN rstrip(SubSeq(s, 1, Len(s) - 1)) ELSE s

strip(s) == rstrip(lstrip(s))

\* entry.get("title", ""): missing, blank, " A", "B ".
Titles == { << >>, <<Space>>, <<Space, 65>>, <<66, Space>> }

\* published_parsed / updated_parsed of an entry against the cutoff.
PublishedKinds == {"undated", "recent", "old"}

Entries == [published : PublishedKinds, title : Titles]

SeqsUpTo(S, n) == UNION { [1..m -> S] : m \in 0..n }

Feeds == SeqsUpTo(Entries, MaxEntries)

\* The loop over feed.entries (lines 91-100): an entry older than the cutoff
\* is passed over, a title that is empty after strip() is not appended.
RECURSIVE KeptTitles(_)
KeptTitles(feed) ==
    IF feed = << >> THEN << >>
    ELSE LET e == Head(feed)
             title == strip(e.title) IN
         IF e.published = "old" \/ title = << >> THEN KeptTitles(Tail(feed))
         ELSE <<title>> \o KeptTitles(Tail(feed))

\* a_tag.get_text(strip=True) of the links of the page: empty, "Yahoo",
\* "Profit", "Tokyo!".
LinkTexts == { << >>, <<89, 97, 104, 111, 111>>,
               <<80, 114, 111, 102, 105, 116>>, <<84, 111, 107, 121, 111, 33>> }

Pages == SeqsUpTo(LinkTexts, MaxEntries)

\* if text and len(text) > 5  (line 123)
RECURSIVE KeptLinks(_)
KeptLinks(page) ==
    IF page = << >> THEN << >>
    ELSE LET text == Head(page) IN
         IF text # << >> /\ Len(text) > 5 THEN <<text>> \o KeptLinks(Tail(page))
         ELSE KeptLinks(Tail(page))

\* list(dict.fromkeys(headlines)) (line 127): the first occurrence of each, in order.
RECURSIVE Deduplicated(_)
Deduplicated(list) ==
    IF list = << >> THEN << >>
    ELSE LET rest == Deduplicated(SubSeq(list, 1, Len(list) - 1))
             last == list[Len(list)] IN
         IF last \in Range(rest) THEN rest ELSE Append(rest, last)

\* The optional imports of lines 23-35.
NewsEnvs == [feedparser : BOOLEAN, scraper : BOOLEAN]

\* fetch_news_rss(ticker) is entered: headlines = [] (line 83).
FetchNewsBegin ==
    /\ UNCHANGED << raised_in, trainVars, screenVars, alignVars >>
    /\ pc = "idle"
    /\ pc' = "news_primary"
    /\ news_env' \in NewsEnvs
    /\ news_headlines' = << >>
    /\ news_log' = << >>

\* except Exception (lines 101-102 and 128-129): the error is printed.
CatchesSourceException == TRUE

\* What a source did: its name, whether it raised, how many headlines it
\* left in the list.
SourceEvent(src, raised, got) == [src |-> src, raised |-> raised, got |-> got]

\* Method 1 (lines 85-102). feedparser.parse or the handling of an entry may
\* raise: the titles appended before the exception stay in headlines.
FetchNewsPrimary ==
    /\ UNCHANGED << trainVars, screenVars, alignVars, news_env >>
    /\ pc = "news_primary"
    /\ IF news_env.feedparser
       THEN \E feed \in Feeds, done \in 0..MaxEntries, raises \in BOOLEAN :
              /\ done <= Len(feed)
              /\ ~raises => done = Len(feed)
              /\ LET got == KeptTitles(SubSeq(feed, 1, done)) IN
                 /\ news_headlines' = news_headlines \o got
                 /\ news_log' = Append(news_log, SourceEvent("rss", raises, Len(got)))
              /\ IF raises /\ ~CatchesSourceException
                 THEN pc' = "raised" /\ raised_in' = "fetch_news_rss"
                 ELSE pc' = "news_secondary" /\ UNCHANGED raised_in
       ELSE /\ pc' = "news_secondary"
            /\ UNCHANGED << raised_in, news_headlines, news_log >>

\* The second source consulted whatever the first one gave.
ConsultsSecondary_Always(list, env) == env.scraper

\* if not headlines and requests is not None and BeautifulSoup is not None
\* (line 105)
ConsultsSecondary(list, env) == list = << >> /\ env.scraper

\* Method 2 (lines 104-129) and return headlines (line 131). requests.get,
\* raise_for_status or the parser may raise, before any link is read.
FetchNewsSecondary ==
    /\ UNCHANGED << trainVars, screenVars, alignVars, news_env >>
    /\ pc = "news_secondary"
    /\ IF ConsultsSecondary(news_headlines, news_env)
       THEN \E page \in Pages, raises \in BOOLEAN :
              /\ raises => page = << >>
              /\ LET list == Deduplicated(news_headlines \o KeptLinks(page)) IN
                 /\ news_headlines' = IF raises THEN news_headlines ELSE list
                 /\ news_log' = Append(news_log,
                        SourceEvent("html", raises,
                                    IF raises THEN 0 ELSE Len(list) - Len(news_headlines)))
              /\ IF raises /\ ~CatchesSourceException
                 THEN pc' = "raised" /\ raised_in' = "fetch_news_rss"
                 ELSE pc' = "news_done" /\ UNCHANGED raised_in
       ELSE /\ pc' = "news_done"
            /\ UNCHANGED << raised_in, news_headlines, news_log >>

NewsNext ==
    \/ FetchNewsBegin
    \/ FetchNewsPrimary
    \/ FetchNewsSecondary
    \/ Exit

SpecNews == TrainInit /\ [][NewsNext]_vars

----------------------------------------------------------------------------
(***************************************************************************)
(* The feature columns of screen_hybrid (screening/screen_hybrid.py, lines *)
(* 119-161), followed column by column: a row of latest_df is a record     *)
(* [code, x], x being the function from the row's columns to their values. *)
(***************************************************************************)
MaxLatest == 2      \* rows of latest_df

\* Three of the columns of FEATURE_COLS, in the order of FEATURE_COLS.
FeatureNames == <<"Close", "Volume", "rsi14">>

\* [c for c in cols if c in keep], the order of cols kept.
RECURSIVE Only(_, _)
Only(cols, keep) ==
    IF cols = << >> THEN << >>
    ELSE IF Head(cols) \in keep THEN <<Head(cols)>> \o Only(Tail(cols), keep)
    ELSE Only(Tail(cols), keep)

\* The feature_cols a bundle can hold: train_hybrid.py stores
\* [c for c in FEATURE_COLS if c in dataset.columns] (lines 79, 103, 139, 185).
StoredLists == { Only(FeatureNames, S) : S \in SUBSET Range(FeatureNames) }

\* The value of column c in the k-th row: never 0.
ValueAt(k, c) ==
    10 * k + (CHOOSE j \in 1..Len(FeatureNames) : FeatureNames[j] = c)

\* The instruments of the latest rows, in the order of features_dict.
InferCodes == << <<49, Dot, 84>>, <<50, Dot, 84>>, <<49, Underscore, 84>> >>

\* latest_df = pd.DataFrame(rows) (line 119): n rows, one per instrument,
\* with the feature columns make_features produced.
FeatureRows(n, present) ==
    [k \in 1..n |-> [code |-> InferCodes[k],
                     x |-> [c \in present |-> ValueAt(k, c)]]]

\* latest_df.columns
ColumnsOf(frame) == IF frame = << >> THEN {} ELSE DOMAIN frame[1].x

\* The frame left as it is.
FillMissing_Skip(frame, missing) == frame

\* for c in missing_g: latest_df[c] = 0.0  (lines 125-126)
FillMissing(frame, missing) ==
    [k \in 1..Len(frame) |->
        [frame[k] EXCEPT !.x = [c \in DOMAIN frame[k].x \cup Range(missing) |->
                                  IF c \in Range(missing) THEN 0 ELSE frame[k].x[c]]]]

\* latest_df[g_feature_cols] (line 131) raises KeyError when a column is not
\* in the frame.
SelectRaises(frame, cols) == ~(Range(cols) \subseteq ColumnsOf(frame))

\* The values of latest_df[cols], row by row, in the order of cols.
Select(frame, cols) ==
    [k \in 1..Len(frame) |-> [j \in 1..Len(cols) |-> frame[k].x[cols[j]]]]

\* row.get(c, 0.0)  (line 150)
RowGet(row, c, default) == IF c \in DOMAIN row.x THEN row.x[c] ELSE default

\* pd.DataFrame([x]) for x built by lines 148-151: one row, the columns in
\* the order of l_feature_cols.
LocalFrame(row, cols) == << [j \in 1..Len(cols) |-> RowGet(row, cols[j], 0)] >>

\* A frame passed to predict_proba: the artifact, the feature_cols stored
\* in its bundle, the columns of the frame and its values.
Fed(artifact, stored, cols, X) ==
    [artifact |-> artifact, stored |-> stored, cols |-> cols, X |-> X]

\* screen_hybrid up to line 119: the defaults, the global bundle loaded, the
\* latest rows collected.
InferBegin ==
    /\ UNCHANGED << raised_in, trainVars, newsVars >>
    /\ pc = "idle"
    /\ global_file \in {"earlier", "this_run"}
    /\ pc' = "infer_global"
    /\ global_weight' = GLOBAL_WEIGHT
    /\ local_weight' = LOCAL_WEIGHT
    /\ top_n' = TOP_N
    /\ fetched' = TRUE
    /\ g_feature_cols' \in StoredLists
    /\ \E n \in 1..MaxLatest, present \in SUBSET Range(FeatureNames) :
         latest_df' = FeatureRows(n, present)
    /\ UNCHANGED << use_sentiment, genai_env, idx, local_exc, df, sentiment_scores,
                    sentiment_reasons, api_calls, sentiment_log, exit_path,
                    result, missing_g, fed >>

\* Lines 121-132: the missing columns are filled, the global model is fed
\* latest_df[g_feature_cols]; an exception here is caught nowhere.
InferGlobal ==
    /\ UNCHANGED << trainVars, newsVars >>
    /\ pc = "infer_global"
    /\ LET missing == Only(g_feature_cols, Range(g_feature_cols) \ ColumnsOf(latest_df))
           filled == FillMissing(latest_df, missing) IN
       /\ missing_g' = missing
       /\ latest_df' = filled
       /\ IF SelectRaises(filled, g_feature_cols)
          THEN /\ pc' = "raised"
               /\ raised_in' = "latest_df[g_feature_cols]"
               /\ UNCHANGED << fed, idx >>
          ELSE /\ fed' = Append(fed, Fed("global", g_feature_cols, g_feature_cols,
                                         Select(filled, g_feature_cols)))
               /\ idx' = 1
               /\ \E raises \in BOOLEAN :
                    IF raises
                    THEN pc' = "raised" /\ raised_in' = "predict_proba"
                    ELSE pc' = "infer_local" /\ UNCHANGED raised_in
    /\ UNCHANGED << global_weight, local_weight, top_n, use_sentiment, genai_env,
                    fetched, local_exc, df, sentiment_scores, sentiment_reasons,
                    api_calls, sentiment_log, exit_path, result, g_feature_cols >>

\* One iteration of lines 140-161: no local file (continue), a file that
\* joblib.load cannot read, or a bundle, whose model is fed the row built
\* from the feature_cols the bundle holds; an exception of predict_proba is
\* passed over (lines 156-157).
InferLocalStep ==
    /\ UNCHANGED << trainVars, newsVars >>
    /\ pc = "infer_local"
    /\ idx <= Len(latest_df)
    /\ LET row == latest_df[idx]
           file == registry[LocalPath(row.code)] IN
       \/ /\ file = NoFile
          /\ idx' = idx + 1
          /\ UNCHANGED << pc, raised_in, fed, local_exc >>
       \/ /\ file = Corrupt
          /\ pc' = "raised"
          /\ raised_in' = "_load_local_model"
          /\ UNCHANGED << idx, fed, local_exc >>
       \/ /\ IsBundle(file)
          /\ \E l_feature_cols \in StoredLists, raises \in BOOLEAN :
               /\ fed' = Append(fed, Fed(row.code, l_feature_cols, l_feature_cols,
                                         LocalFrame(row, l_feature_cols)))
               /\ local_exc' = IF raises THEN local_exc \cup {row.code} ELSE local_exc
               /\ IF raises /\ ~CatchesLocalInference
                  THEN pc' = "raised" /\ raised_in' = "predict_proba" /\ UNCHANGED idx
                  ELSE idx' = idx + 1 /\ UNCHANGED << pc, raised_in >>
    /\ UNCHANGED << global_weight, local_weight, top_n, use_sentiment, genai_env,
                    fetched, latest_df, df, sentiment_scores, sentiment_reasons,
                    api_calls, sentiment_log, exit_path, result, g_feature_cols,
                    missing_g >>

\* The loop of lines 140-161 is over.
InferLocalDone ==
    /\ UNCHANGED << raised_in, trainVars, screenVars, newsVars, alignVars >>
    /\ pc = "infer_local"
    /\ idx > Len(latest_df)
    /\ pc' = "infer_done"

InferNext ==
    \/ InferBegin
    \/ InferGlobal
    \/ InferLocalStep
    \/ InferLocalDone
    \/ Exit

\* Model files of earlier training runs are in place.
InferInit ==
    /\ Idle
    /\ ScreenIdle
    /\ NewsIdle
    /\ AlignIdle
    /\ registry \in ModelDirs
    /\ global_file = "earlier"

SpecInfer == InferInit /\ [][InferNext]_vars


(***************************************************************************)
(* Properties of screen_hybrid, apply_sentiment_filter and screen_stocks.  *)
(***************************************************************************)
\* prob_hybrid has been written into latest_df (line 178 has run).
Scored ==
    \/ pc \in {"sentiment_call", "sentiment_loop"}
    \/ pc = "screen_done" /\ exit_path \in {"plain", "sentiment", "fallback"}

\* The loop of lines 140-161 has passed row k.
Processed(k) == Scored \/ (pc = "screen_local" /\ k < idx)

LocalFileOf(row) == registry[LocalPath(row.code)]

\* The rows of latest_df while it is the frame of screen_hybrid.
HybridRows == {k \in 1..Len(latest_df) : "prob_local" \in DOMAIN latest_df[k]}

HybridColumns == {"code", "Volume", "prob_global", "prob_local", "prob_hybrid"}

\* C4: every scored candidate without a local probability has prob_hybrid
\* equal to prob_global exactly; every other scored candidate has
\* prob_hybrid = global_weight * prob_global + local_weight * prob_local
\* (weights in tenths, probabilities in hundredths: no rounding happens).
C4_FusionRule ==
    Scored =>
        \A k \in 1..Len(latest_df) :
            LET r == latest_df[k] IN
            IF IsNaN(r.prob_local)
            THEN r.prob_hybrid = r.prob_global
            ELSE 10 * r.prob_hybrid
                   = global_weight * r.prob_global + local_weight * r.prob_local[1]

\* Default weights; one row fused from 0.80 and 0.90 into 0.84, one row
\* without local probability keeping its global 0.80.
C4_Witness ==
    /\ Scored
    /\ global_weight = GLOBAL_WEIGHT
    /\ local_weight = LOCAL_WEIGHT
    /\ \E j, k \in 1..Len(latest_df) :
         /\ latest_df[j].prob_global = 80
         /\ latest_df[j].prob_local = <<90>>
         /\ latest_df[j].prob_hybrid = 84
         /\ IsNaN(latest_df[k].prob_local)
         /\ latest_df[k].prob_global = 80
         /\ latest_df[k].prob_hybrid = 80

\* C5: every scored candidate has prob_hybrid within [0, 1], whatever
\* weights screen_hybrid was called with.
C5_HybridInUnitInterval ==
    Scored =>
        \A k \in 1..Len(latest_df) :
            /\ latest_df[k].prob_hybrid >= 0
            /\ latest_df[k].prob_hybrid <= 100

\* The ranking column of the frame a run returned.
RankColumn == IF exit_path \in {"legacy", "legacy_no_rows"} THEN "prob" ELSE "prob_hybrid"

\* C6: on every path that returns (plain, sentiment applied, sentiment
\* fallback, legacy screen_stocks) the returned frame is in non-increasing
\* order of its probability column, has at most top_n rows, and every row
\* has Volume >= MIN_VOLUME and probability >= MIN_PROB.
C6_OutputOrderedBoundedFiltered ==
    pc = "screen_done" =>
        /\ Len(result) <= top_n
        /\ \A k \in 1..Len(result) :
             /\ result[k].Volume >= MIN_VOLUME
             /\ result[k][RankColumn] >= MIN_PROB
        /\ \A k \in 1..(Len(result) - 1) :
             result[k][RankColumn] >= result[k + 1][RankColumn]

\* A sentiment run returning two rows of different probability, from a
\* candidate set of which a row was rejected.
C6_Witness ==
    /\ pc = "screen_done"
    /\ exit_path = "sentiment"
    /\ Len(result) >= 2
    /\ result[1].prob_hybrid > result[2].prob_hybrid
    /\ Len(latest_df) > Len(Filtered(latest_df))

\* C7: an exception out of the sentiment stage never leaves screen_hybrid,
\* and the frame then returned is, rows, order and columns, the ranking
\* that the same call without sentiment returns for the scored candidates.
C7_FallbackIsPlainRanking ==
    /\ pc = "raised" => raised_in # "apply_sentiment_filter"
    /\ pc = "screen_done" /\ exit_path = "fallback" =>
         /\ result = RankedTopN(latest_df)
         /\ \A k \in 1..Len(result) : DOMAIN result[k] = HybridColumns

\* A fallback with more eligible candidates than top_n, so that the window
\* handed to the sentiment stage was wider than the ranking returned.
C7_Witness ==
    /\ pc = "screen_done"
    /\ exit_path = "fallback"
    /\ Len(result) >= 1
    /\ Len(Filtered(latest_df)) > top_n

\* C8 as stated: a run whose scoring failures were all handled per candidate
\* (library missing or API key unset) returns the unrefined ranking.
C8_HandledFailureKeepsRanking ==
    pc = "screen_done" /\ exit_path = "sentiment" /\ genai_env \in {"nolib", "nokey"} =>
        [k \in 1..Len(result) |-> result[k].code]
          = [k \in 1..Len(RankedTopN(latest_df)) |-> RankedTopN(latest_df)[k].code]

\* C8: a candidate whose scoring failed in a handled way gets
\* SENTIMENT_DEFAULT_SCORE, below SENTIMENT_MIN_SCORE, and is dropped from
\* the returned frame; with the library missing or the API key unset the
\* returned frame is empty.
C8_HandledFailureDropsCandidates ==
    pc = "screen_done" /\ exit_path = "sentiment" =>
        /\ \A k \in 1..Len(result) :
             /\ result[k].sentiment_score >= SENTIMENT_MIN_SCORE
             /\ result[k].sentiment_reason = "parsed"
        /\ genai_env \in {"nolib", "nokey"} => result = << >>

\* The API key is unset, the plain ranking has rows, the run returns none.
C8_Witness ==
    /\ pc = "screen_done"
    /\ exit_path = "sentiment"
    /\ genai_env = "nokey"
    /\ result = << >>
    /\ RankedTopN(latest_df) # << >>

\* The positions of screen_hybrid after the global model was loaded.
HybridPastLoad == {"screen_fetch", "screen_local", "sentiment_call", "sentiment_loop"}

\* C9: without the global model file screen_hybrid raises before any
\* price is fetched and produces nothing; an instrument without a local
\* model file keeps an undefined prob_local and never stops the run.
C9_GlobalRequiredLocalOptional ==
    /\ pc = "raised" /\ raised_in = "_load_global_model" =>
         ~fetched /\ latest_df = << >> /\ result = << >>
    /\ global_file = "NoFile" =>
         /\ pc \notin HybridPastLoad
         /\ pc = "screen_done" => exit_path \in {"legacy", "legacy_no_rows"}
    /\ \A k \in HybridRows :
         LocalFileOf(latest_df[k]) = NoFile => IsNaN(latest_df[k].prob_local)
    /\ pc = "raised" /\ raised_in = "_load_local_model" =>
         LocalFileOf(latest_df[idx]) = Corrupt

\* A finished run in which a row without local file is followed by a row
\* that got its local probability.
C9_Witness ==
    /\ pc = "screen_done"
    /\ exit_path = "plain"
    /\ \E j, k \in 1..Len(latest_df) :
         /\ j < k
         /\ LocalFileOf(latest_df[j]) = NoFile
         /\ IsNaN(latest_df[j].prob_local)
         /\ latest_df[j] \in Range(result)
         /\ ~IsNaN(latest_df[k].prob_local)

\* C10: an exception of the local model's inference never leaves
\* screen_hybrid; the instrument keeps an undefined prob_local and is
\* scored with prob_global alone, and every other instrument with a local
\* model still gets its local probability.
C10_LocalInferenceFailureIsolated ==
    /\ pc = "raised" => raised_in # "predict_proba"
    /\ \A k \in HybridRows :
         LET r == latest_df[k] IN
         /\ r.code \in local_exc =>
              /\ IsNaN(r.prob_local)
              /\ Scored => r.prob_hybrid = r.prob_global
         /\ Processed(k) /\ r.code \notin local_exc /\ IsBundle(LocalFileOf(r)) =>
              ~IsNaN(r.prob_local)

\* A finished run in which the inference of one row raised and a later row
\* was fused from both probabilities.
C10_Witness ==
    /\ pc = "screen_done"
    /\ exit_path = "plain"
    /\ \E j, k \in 1..Len(latest_df) :
         /\ j < k
         /\ latest_df[j].code \in local_exc
         /\ latest_df[j].prob_hybrid = latest_df[j].prob_global
         /\ latest_df[k].prob_local = <<90>>
         /\ latest_df[k].prob_hybrid # latest_df[k].prob_global

\* C25: in every weighted fusion screen_hybrid performs (a candidate with a
\* local probability), the two weights applied sum to 1.0, however the
\* caller supplied them.
C25_WeightsSumToOne ==
    Scored =>
        \A k \in 1..Len(latest_df) :
            ~IsNaN(latest_df[k].prob_local) => global_weight + local_weight = 10

\* The row of latest_df of an instrument.
RowOf(code) == latest_df[CHOOSE k \in 1..Len(latest_df) : latest_df[k].code = code]

\* Column c was absent from the latest rows: still absent, or filled with
\* 0.0 for the global model.
AbsentFromLatest(row, c) == c \notin DOMAIN row.x \/ c \in Range(missing_g)

\* The value a model is to receive for column c of a row.
Supplied(k, row, c) == IF AbsentFromLatest(row, c) THEN 0 ELSE ValueAt(k, c)

InferPositions == {"infer_global", "infer_local", "infer_done"}

\* C27: in screen_hybrid a feature column that the global or a local
\* artifact requires and that the latest rows lack is supplied as 0.0 to
\* that artifact's inference, every other column with its own value; the
\* frame passed to an artifact has exactly the columns of the feature_cols
\* stored in its bundle, in that order; a missing column never makes the run
\* raise; the filling touches no column the rows had.
C27_MissingColumnsZeroFilled ==
    /\ pc = "raised" => raised_in \in {"predict_proba", "_load_local_model"}
    /\ pc \in {"infer_local", "infer_done"} =>
          /\ Cardinality({ n \in 1..Len(fed) : fed[n].artifact = "global" }) = 1
          /\ \A k \in 1..Len(latest_df) : \A c \in DOMAIN latest_df[k].x :
                latest_df[k].x[c] = Supplied(k, latest_df[k], c)
    /\ \A n \in 1..Len(fed) :
          LET e == fed[n] IN
          /\ e.cols = e.stored
          /\ IF e.artifact = "global"
             THEN /\ e.stored = g_feature_cols
                  /\ Len(e.X) = Len(latest_df)
                  /\ \A k \in 1..Len(e.X) : \A j \in 1..Len(e.cols) :
                        e.X[k][j] = Supplied(k, latest_df[k], e.cols[j])
             ELSE /\ Len(e.X) = 1
                  /\ \A j \in 1..Len(e.cols) :
                        \E k \in 1..Len(latest_df) :
                            /\ latest_df[k].code = e.artifact
                            /\ e.X[1][j] = Supplied(k, latest_df[k], e.cols[j])

\* A finished inference: the global model required a column the rows
\* lacked and one they had; a local model required a column that neither
\* the rows nor the global model had, and one the rows had.
C27_Witness ==
    /\ pc = "infer_done"
    /\ missing_g # << >>
    /\ Len(missing_g) < Len(g_feature_cols)
    /\ \E n \in 1..Len(fed) :
         LET e == fed[n] IN
         /\ e.artifact # "global"
         /\ \E c \in Range(e.cols) : c \notin DOMAIN RowOf(e.artifact).x
         /\ \E j \in 1..Len(e.cols) : e.X[1][j] # 0

(***************************************************************************)
(* Properties of apply_sentiment_filter and analyze_sentiment_gemini.      *)
(***************************************************************************)
\* The loop of lines 320-351 has scored every row of the window df.
LoopComplete == pc = "sentiment_loop" /\ Len(sentiment_scores) = Len(df)

\* Row r of a returned frame is row c of the input with its probabilities.
SameCandidate(r, c) ==
    /\ r.code = c.code
    /\ r.Volume = c.Volume
    /\ r.prob_global = c.prob_global
    /\ r.prob_local = c.prob_local
    /\ r.prob_hybrid = c.prob_hybrid

\* What C11 asks of a frame out returned for the input frame inp.
FilterContract(out, inp) ==
    /\ Len(out) <= Len(inp)
    /\ \A k \in 1..Len(out) :
         /\ \E j \in 1..Len(inp) : SameCandidate(out[k], inp[j])
         /\ out[k].sentiment_score >= SENTIMENT_MIN_SCORE
    /\ \A j, k \in 1..Len(out) : out[j].code = out[k].code => j = k
    /\ \A k \in 1..(Len(out) - 1) : out[k].prob_hybrid >= out[k + 1].prob_hybrid

\* C11: the frame apply_sentiment_filter returns (and the frame screen_hybrid
\* cuts from it) has no more rows than the input window, only candidates of
\* the input, each once, with unchanged prob_global, prob_local and
\* prob_hybrid and sentiment_score >= SENTIMENT_MIN_SCORE, in non-increasing
\* order of prob_hybrid.
C11_FilterContract ==
    /\ LoopComplete =>
         /\ Len(SentimentFiltered(df, sentiment_scores, sentiment_reasons)) <= Len(df)
         /\ FilterContract(SentimentFiltered(df, sentiment_scores, sentiment_reasons),
                           PreSentiment(latest_df))
    /\ pc = "screen_done" /\ exit_path = "sentiment" =>
         FilterContract(result, PreSentiment(latest_df))

\* A sentiment run with the default top_n, so that the frame returned by
\* screen_hybrid is the whole frame apply_sentiment_filter returned: some
\* candidates of the input survived and some were rejected.
C11_Witness ==
    /\ pc = "screen_done"
    /\ exit_path = "sentiment"
    /\ top_n = TOP_N
    /\ Len(result) >= 2
    /\ Len(result) < Len(PreSentiment(latest_df))
    /\ result[1].prob_hybrid > result[2].prob_hybrid

\* The events of the loop so far that are of kind ev.
LoggedAs(ev) == {n \in 1..Len(sentiment_log) : sentiment_log[n].ev = ev}

\* C12: a candidate whose API call raised, or was answered without a score
\* in 1..5, has SENTIMENT_DEFAULT_SCORE and the undeterminable reason; the
\* loop is still running after it, and the candidate is a row of the scored
\* frame that the final filter is applied to.
C12_ApiFailureGivesDefault ==
    /\ \A n \in LoggedAs("call_failed") :
         LET k == sentiment_log[n].k IN
         /\ pc = "sentiment_loop"
         /\ k <= Len(sentiment_scores)
         /\ sentiment_scores[k] = SENTIMENT_DEFAULT_SCORE
         /\ sentiment_reasons[k] = "undeterminable"
    /\ LoopComplete =>
         LET scored == WithSentiment(df, sentiment_scores, sentiment_reasons) IN
         /\ Len(scored) = Len(df)
         /\ \A n \in LoggedAs("call_failed") :
              LET k == sentiment_log[n].k IN
              /\ scored[k].code = df[k].code
              /\ scored[k].sentiment_score = SENTIMENT_DEFAULT_SCORE

\* The loop is over; the call for the first candidate failed, the call for
\* the second was answered with a score.
C12_Witness ==
    /\ LoopComplete
    /\ \E m \in LoggedAs("call_failed"), n \in LoggedAs("call_ok") :
         /\ sentiment_log[m].k = 1
         /\ sentiment_log[n].k = 2
         /\ sentiment_scores[2] # SENTIMENT_DEFAULT_SCORE

\* The rows of the window whose headline list was empty: the fetch found
\* nothing or raised.
WithoutHeadlines ==
    {sentiment_log[n].k : n \in LoggedAs("news_empty") \cup LoggedAs("news_failed")}

\* The rows of the window for which generate_content was called.
ApiCalled ==
    {sentiment_log[n].k : n \in LoggedAs("call_ok") \cup LoggedAs("call_failed")}

\* C13 as stated: a candidate without headlines is never sent to the API and
\* gets the default score with the no-news reason, whatever the library and
\* the API key.
C13_NoHeadlinesNoNewsReason ==
    \A k \in WithoutHeadlines :
        /\ k \notin ApiCalled
        /\ k <= Len(sentiment_scores) =>
             /\ sentiment_scores[k] = SENTIMENT_DEFAULT_SCORE
             /\ sentiment_reasons[k] = "no_news"

\* C13: a candidate without headlines is never sent to the API and gets
\* SENTIMENT_DEFAULT_SCORE; its reason is the no-news reason when the library
\* and the API key are there, and the undeterminable reason when either is
\* missing.
C13_NoHeadlinesNoCall ==
    \A k \in WithoutHeadlines :
        /\ k \notin ApiCalled
        /\ k <= Len(sentiment_scores) =>
             /\ sentiment_scores[k] = SENTIMENT_DEFAULT_SCORE
             /\ sentiment_reasons[k] = IF genai_env = "ok" THEN "no_news"
                                       ELSE "undeterminable"

\* The API key is unset; the first candidate had no headlines and carries
\* the undeterminable reason.
C13_Witness ==
    /\ LoopComplete
    /\ genai_env = "nokey"
    /\ 1 \in WithoutHeadlines
    /\ sentiment_scores[1] = SENTIMENT_DEFAULT_SCORE
    /\ sentiment_reasons[1] = "undeterminable"
    /\ api_calls = 0

\* The codes of the rows of a frame, in order.
Codes(frame) == [k \in 1..Len(frame) |-> frame[k].code]

\* C14: the candidates that are sentiment-scored are the top
\* max(top_n, SENTIMENT_TOP_N) rows by prob_hybrid of the filtered
\* candidates, all of them if there are fewer.
C14_WindowIsMax ==
    pc = "sentiment_loop" =>
        Codes(df) = Codes(head(sort_values_desc(Filtered(latest_df), "prob_hybrid"),
                               Max(top_n, SENTIMENT_TOP_N)))

\* No row of the scored latest_df passes the volume and probability filters.
NothingQualifies ==
    /\ Scored
    /\ \A k \in 1..Len(latest_df) :
         latest_df[k].Volume < MIN_VOLUME \/ latest_df[k].prob_hybrid < MIN_PROB

\* C15: screen_hybrid returns an empty frame when there is no latest row and
\* when no scored row passes the filters, with and without sentiment; once
\* the models are loaded it raises in neither case.
C15_EmptyNotAnError ==
    /\ pc = "screen_done" /\ exit_path = "no_rows" => result = << >>
    /\ pc = "screen_done" /\ NothingQualifies => result = << >>
    /\ pc = "raised" =>
         raised_in \in {"_load_global_model", "_load_local_model", "screen_stocks"}

\* A sentiment run over rows of which none passes the filters.
C15_Witness ==
    /\ pc = "screen_done"
    /\ exit_path = "sentiment"
    /\ use_sentiment
    /\ Len(latest_df) >= 2
    /\ NothingQualifies
    /\ result = << >>

\* The positions of sentiment_log at which generate_content was called.
CallEvents == LoggedAs("call_ok") \cup LoggedAs("call_failed")

\* C19: in one run of apply_sentiment_filter no candidate is sent to the
\* API twice, and a sleep lies between any two calls of the API.
C19_OneCallPerCandidateWithDelay ==
    /\ \A m, n \in CallEvents :
         sentiment_log[m].k = sentiment_log[n].k => m = n
    /\ \A m, n \in CallEvents :
         m < n => \E j \in LoggedAs("sleep") : m < j /\ j < n
    /\ Cardinality(CallEvents) <= Len(df)

\* The loop is over and the API was called for the first two candidates.
C19_Witness ==
    /\ LoopComplete
    /\ \E m, n \in CallEvents :
         /\ sentiment_log[m].k = 1
         /\ sentiment_log[n].k = 2
         /\ \E j \in LoggedAs("sleep") : m < j /\ j < n

\* The positions of sentiment_log at which the news fetch or the API call
\* of a candidate failed.
FailureEvents == LoggedAs("news_failed") \cup LoggedAs("call_failed")

\* C20: a failure of the news fetch or of the API call for one candidate
\* leaves the loop running: the candidate has its score and reason, the
\* scores and reasons are one per candidate in window order and never more
\* than the window, and a candidate whose call was answered keeps the
\* answer whatever happened to the others.
C20_FailureDoesNotStopLoop ==
    /\ Len(sentiment_scores) = Len(sentiment_reasons)
    /\ Len(sentiment_scores) <= Len(df)
    /\ \A n \in FailureEvents :
         /\ pc = "sentiment_loop"
         /\ sentiment_log[n].k <= Len(sentiment_scores)
         /\ sentiment_scores[sentiment_log[n].k] = SENTIMENT_DEFAULT_SCORE
    /\ \A n \in LoggedAs("call_ok") :
         /\ sentiment_reasons[sentiment_log[n].k] = "parsed"
         /\ sentiment_scores[sentiment_log[n].k] \in ParsedScores
    /\ \A k \in 1..Len(sentiment_scores) :
         Cardinality({n \in LoggedAs("sleep") : sentiment_log[n].k = k}) = 1
    /\ \A m, n \in 1..Len(sentiment_log) :
         m < n => sentiment_log[m].k <= sentiment_log[n].k

\* The loop is over for a window of three: the news fetch of the first
\* candidate raised, the API call of the second failed, the third was scored.
C20_Witness ==
    /\ LoopComplete
    /\ Len(df) = 3
    /\ \E n \in LoggedAs("news_failed") : sentiment_log[n].k = 1
    /\ \E n \in LoggedAs("call_failed") : sentiment_log[n].k = 2
    /\ \E n \in LoggedAs("call_ok") : sentiment_log[n].k = 3
    /\ sentiment_reasons = <<"no_news", "undeterminable", "parsed">>

\* The events of news_log for one source.
EventsOf(src) == { n \in 1..Len(news_log) : news_log[n].src = src }

\* The source left no headline: it raised before any, found none, or was
\* not consulted.
YieldedNone(src) == \A n \in EventsOf(src) : news_log[n].got = 0

\* C26: fetch_news_rss consults the HTML page only when the RSS feed left no
\* headline (empty, failed or not available), never when it left at least
\* one; each source is consulted at most once; when both sources fail or are
\* empty the function returns an empty list, and it never raises.
C26_SecondaryOnlyWhenPrimaryEmpty ==
    /\ EventsOf("html") # {} => YieldedNone("rss")
    /\ \A m \in EventsOf("html"), n \in EventsOf("rss") : n < m
    /\ Cardinality(EventsOf("rss")) <= 1 /\ Cardinality(EventsOf("html")) <= 1
    /\ pc = "raised" => raised_in # "fetch_news_rss"
    /\ (pc = "news_done" /\ YieldedNone("rss") /\ YieldedNone("html"))
          => news_headlines = << >>
    /\ (pc = "news_done" /\ ~YieldedNone("rss"))
          => (news_headlines # << >> /\ EventsOf("html") = {})

\* A call that returned an empty list after both sources raised.
C26_Witness ==
    /\ pc = "news_done"
    /\ news_log = << SourceEvent("rss", TRUE, 0), SourceEvent("html", TRUE, 0) >>
    /\ news_headlines = << >>

(***************************************************************************)
(* Properties of train_global_model and of training runs in sequence.      *)
(***************************************************************************)
\* train_global_model was called with a dataset that has none of the
\* configured feature columns, or no row.
NoUsableFeatures ==
    /\ global_run.steps # << >>
    /\ feature_cols = << >> \/ TotalRows(dataset, Tickers) = 0

\* C16: called with a dataset that has none of the configured feature
\* columns (or no row), train_global_model ends with the dedicated
\* SchemaMismatch error, has not called fit and has not written the global
\* model file.
C16_SchemaMismatchBeforeFit ==
    NoUsableFeatures =>
        /\ global_run.exc = "SchemaMismatch"
        /\ "fit" \notin Range(global_run.steps)
        /\ "dump" \notin Range(global_run.steps)

\* The local model directory holds a bundle that was fitted for t.
ArtifactPresent(t) ==
    /\ IsBundle(registry[LocalPath(t)])
    /\ registry[LocalPath(t)].ticker = t

\* C17: after any sequence of training runs, a local artifact is present for
\* instrument X only if X has at least min_samples rows and both target
\* classes in the dataset of the most recent run.
C17_RegistryInvariant ==
    pc = "train_done" =>
        \A t \in Tickers :
            ArtifactPresent(t) => (HasEnoughRows(t) /\ HasBothClasses(t))

\* The instruments whose iteration went through the try block.
WentThroughTry == {t \in Tickers : outcome[t] \in {"Trained", "Failed"}}

\* C18 as stated: the delay is applied after the iteration of every
\* instrument, whatever its outcome.
C18_SleepAfterEveryInstrument ==
    InLocalCall => sleeps = Cardinality(Visited)

\* C18: the delay is applied after the iteration of every instrument that
\* was trained or failed, and after no iteration that was skipped for
\* insufficient data or for a single class.
C18_SleepAfterTryOnly ==
    InLocalCall => sleeps = Cardinality(WentThroughTry)

\* A finished call with a trained, a failed and a skipped instrument, and
\* two sleeps.
C18_Witness ==
    /\ pc = "train_done"
    /\ \E t, u, w \in Tickers :
         /\ outcome[t] = "Trained"
         /\ outcome[u] = "Failed"
         /\ outcome[w] \in {"SkippedInsufficientData", "SkippedSingleClass"}
    /\ sleeps = 2

\* Number of times the run in progress called joblib.dump on the global
\* model file.
GlobalWrites == Cardinality({ k \in 1..Len(global_run.steps) : global_run.steps[k] = "dump" })

\* The run in progress called joblib.dump for a local artifact: the iteration
\* was trained, or failed inside dump.
LocalWriteAttempted(t) == outcome[t] = "Trained" \/ exc_at[t] = "dump"

TrainRunEnded ==
    \/ pc = "train_done"
    \/ pc = "raised" /\ raised_in \in {"train_global_model", "train_local_models"}

GlobalTrainingRaised == pc = "raised" /\ raised_in = "train_global_model"

\* C22 as stated: every run of train_hybrid writes the global artifact
\* exactly once, before any local artifact; a run whose global training
\* raises writes no local artifact.
C22_GlobalWrittenExactlyOnce ==
    /\ TrainRunEnded => GlobalWrites = 1
    /\ (\E t \in Tickers : LocalWriteAttempted(t)) => GlobalWrites = 1
    /\ GlobalTrainingRaised => \A t \in Tickers : ~LocalWriteAttempted(t)

\* C22: a run of train_hybrid writes the global artifact at most once, and
\* exactly once when global training returns; the write comes before any
\* local artifact of the run is written. When global training raises,
\* train_hybrid raises, the loop of train_local_models is never entered and
\* the local model directory stays as the run found it; the global artifact
\* was then written in full by no step of the run.
C22_GlobalFirstAtMostOnce ==
    /\ [](GlobalWrites <= 1)
    /\ [](pc \in {"train_local_begin", "train_local_loop", "train_done"} =>
            (GlobalWrites = 1 /\ global_run.exc = "" /\ global_file = "this_run"))
    /\ []((\E t \in Tickers : LocalWriteAttempted(t)) =>
            (GlobalWrites = 1 /\ global_file = "this_run"))
    /\ [](global_run.exc # "" =>
            /\ GlobalTrainingRaised
            /\ global_file # "this_run"
            /\ Visited = {}
            /\ \A k \in Keys : registry[k] = Aged(registry[k]))
    /\ [][(pc = "train_global" \/ global_run.exc # "") => UNCHANGED registry]_vars

\* A run whose global training raised in fit, after an earlier run that
\* left a global artifact and a local artifact: both are still the earlier
\* ones.
C22_Witness ==
    /\ GlobalTrainingRaised
    /\ global_run.exc = "fit_error"
    /\ global_file = "earlier"
    /\ \E k \in Keys : IsBundle(registry[k])

\* The instruments for which the run in progress called joblib.dump on the
\* file of key k.
WritersOf(k) == { t \in Tickers : LocalWriteAttempted(t) /\ LocalPath(t) = k }

\* C23: within one training run each key of the local model directory is
\* written at most once; the file _load_local_model finds for an instrument
\* the run trained is the bundle fitted on that instrument; two distinct
\* instruments of the run never share a key.
C23_KeysWrittenOnceAndUnshared ==
    InLocalCall =>
        /\ \A k \in Keys : Cardinality(WritersOf(k)) <= 1
        /\ \A t \in Range(trained_tickers) :
              registry[LocalPath(t)] = Bundle(t, "this_run")
        /\ \A t, u \in Range(tickers) : t # u => LocalPath(t) # LocalPath(u)

\* The instruments the run skipped for insufficient samples or single class.
SkippedByGate ==
    { t \in Tickers : outcome[t] \in {"SkippedInsufficientData", "SkippedSingleClass"} }

\* The file under k is the one the run found: no step of the run wrote it.
EntryAsBeforeRun(k) == registry[k] = Aged(registry[k]) /\ WritersOf(k) = {}

\* C24: a training run leaves the local model file of every instrument it
\* skipped for insufficient samples or single class as it was before the
\* run, present or absent, so that an artifact of an earlier run stays in
\* place for screen_hybrid to load.
C24_SkippedEntryUntouched ==
    InLocalCall => \A t \in SkippedByGate : EntryAsBeforeRun(LocalPath(t))

(***************************************************************************)
(* The whole program: training runs and screening runs in any order, the   *)
(* model files being what one run leaves to the next.                      *)
(***************************************************************************)
Init == TrainInit

Next == TrainNext \/ ScreenNext \/ NewsNext \/ InferNext

Spec == Init /\ [][Next]_vars

====
